---- MODULE Spec2Model ----
(***************************************************************************)
(* Model of the configuration override engine                              *)
(* (services/config/configupdate/configupdate.go): the Field Namers, the   *)
(* weak numeric coercer weakCopyValue, the configWalker callbacks driven   *)
(* by reflectwalk.Walk and ConfigUpdater.Update.                           *)
(*                                                                         *)
(* Strings are sequences of tokens; the token "," is the comma, so that    *)
(* strings.Split(s, ",")[0] is computed and not assumed.  Numeric strings  *)
(* are sequences of one-character tokens so strconv parsing is computed.   *)
(* Integers are held as the signed reading of their 64-bit pattern; a      *)
(* float is held in halves (n = 2 * value).                                *)
(***************************************************************************)
EXTENDS Integers, Sequences, FiniteSets, TLC

VARIABLES arch, heap, cu, snap, last, calls, csrc, cdst, cset, cout, store, dao, svc

vars == <<arch, heap, cu, snap, last, calls, csrc, cdst, cset, cout, store, dao, svc>>

(***************************************************************************)
(* reflect.Kind                                                            *)
(***************************************************************************)

\* reflect.Kind values, in the order of the reflect package's enumeration.
KindNum ==
  [Invalid |-> 0, Bool |-> 1, Int |-> 2, Int8 |-> 3, Int16 |-> 4, Int32 |-> 5,
   Int64 |-> 6, Uint |-> 7, Uint8 |-> 8, Uint16 |-> 9, Uint32 |-> 10,
   Uint64 |-> 11, Uintptr |-> 12, Float32 |-> 13, Float64 |-> 14,
   Complex64 |-> 15, Map |-> 21, Ptr |-> 22, String |-> 24, Struct |-> 25]

Kinds == DOMAIN KindNum

isNumericKind(k) == KindNum[k] >= KindNum["Int"] /\ KindNum[k] <= KindNum["Float64"]

isIntKind(k) == KindNum[k] >= KindNum["Int"] /\ KindNum[k] <= KindNum["Int64"]

isUintKind(k) == KindNum[k] >= KindNum["Uint"] /\ KindNum[k] <= KindNum["Uint64"]

isFloatKind(k) == k = "Float32" \/ k = "Float64"

\* Bit width of an integer kind (int and uint are 64 bits wide on the
\* 64-bit builds modelled here).
KindBits ==
  [Int |-> 64, Int8 |-> 8, Int16 |-> 16, Int32 |-> 32, Int64 |-> 64,
   Uint |-> 64, Uint8 |-> 8, Uint16 |-> 16, Uint32 |-> 32, Uint64 |-> 64]

Pow2(w) == IF w = 8 THEN 256 ELSE 65536

\* reflect.Value.SetInt: the 64-bit value x truncated to the width of the
\* destination kind (two's complement).  Widths of 32 and 64 bits leave
\* every value of the model's range as it is.
SetIntBits(k, x) ==
  IF KindBits[k] >= 32 THEN x
  ELSE ((x + Pow2(KindBits[k]) \div 2) % Pow2(KindBits[k])) - Pow2(KindBits[k]) \div 2

\* reflect.Value.SetUint: the 64-bit pattern x truncated to the width of the
\* destination kind.  A 64-bit destination keeps the pattern (a negative
\* signed reading stands for the value plus 2^64).
SetUintBits(k, x) ==
  IF KindBits[k] >= 32 THEN x ELSE x % Pow2(KindBits[k])

(***************************************************************************)
(* Values: k the kind, t the declared type, n the number (integers: the    *)
(* signed reading of the bits; floats: halves), s the string, a an address *)
(***************************************************************************)

NoStr == << >>

Val(k, t, n, s) == [k |-> k, t |-> t, n |-> n, s |-> s, a |-> 0]

\* reflect.ValueOf(nil): the zero Value, of kind Invalid.
NilValue == Val("Invalid", "", 0, NoStr)

IntV(k, n) == Val(k, k, n, NoStr)

FloatV(k, halves) == Val(k, k, halves, NoStr)

StrV(s) == Val("String", "String", 0, s)

(***************************************************************************)
(* strconv                                                                 *)
(***************************************************************************)

DigitVal ==
  [c \in {"0", "1", "2", "3", "4", "5", "6", "7", "8", "9"} |->
     CASE c = "0" -> 0 [] c = "1" -> 1 [] c = "2" -> 2 [] c = "3" -> 3
       [] c = "4" -> 4 [] c = "5" -> 5 [] c = "6" -> 6 [] c = "7" -> 7
       [] c = "8" -> 8 [] c = "9" -> 9]

IsDigits(s) == \A i \in 1..Len(s) : s[i] \in DOMAIN DigitVal

RECURSIVE DigitsValue(_)
DigitsValue(s) ==
  IF s = << >> THEN 0
  ELSE 10 * DigitsValue(SubSeq(s, 1, Len(s) - 1)) + DigitVal[s[Len(s)]]

ParseFail == [ok |-> FALSE, n |-> 0]

\* strconv.ParseUint(s, 10, 64): one or more decimal digits, no sign.
ParseUint(s) ==
  IF s # << >> /\ IsDigits(s) THEN [ok |-> TRUE, n |-> DigitsValue(s)] ELSE ParseFail

\* strconv.ParseInt(s, 10, 64): an optional sign, then ParseUint.
ParseInt(s) ==
  IF s = << >> THEN ParseFail
  ELSE IF s[1] \in {"+", "-"}
       THEN LET u == ParseUint(Tail(s))
            IN  IF u.ok THEN [ok |-> TRUE, n |-> IF s[1] = "-" THEN 0 - u.n ELSE u.n]
                ELSE ParseFail
       ELSE ParseUint(s)

\* Index of the first "." of s, or 0.
DotIndex(s) ==
  IF \E i \in 1..Len(s) : s[i] = "."
  THEN CHOOSE i \in 1..Len(s) : s[i] = "." /\ \A j \in 1..(i - 1) : s[j] # "."
  ELSE 0

\* The fraction digits ".0*" and ".50*" are the ones a value in halves holds.
FracHalves(f) ==
  IF f # << >> /\ f[1] = "5" THEN 1 ELSE 0

\* strconv.ParseFloat(s, 64) on decimal notation: an optional sign, digits,
\* an optional "." and digits, at least one digit in all.  The result is in
\* halves.
ParseFloat(s) ==
  IF s = << >> THEN ParseFail
  ELSE LET signed == s[1] \in {"+", "-"}
           body   == IF signed THEN Tail(s) ELSE s
           d      == DotIndex(body)
           ip     == IF d = 0 THEN body ELSE SubSeq(body, 1, d - 1)
           fp     == IF d = 0 THEN << >> ELSE SubSeq(body, d + 1, Len(body))
           mag    == 2 * DigitsValue(ip) + FracHalves(fp)
       IN  IF IsDigits(ip) /\ IsDigits(fp) /\ Len(ip) + Len(fp) > 0
           THEN [ok |-> TRUE, n |-> IF signed /\ s[1] = "-" THEN 0 - mag ELSE mag]
           ELSE ParseFail

(***************************************************************************)
(* Conversions between numeric kinds                                       *)
(***************************************************************************)

\* int64(f): truncation toward zero of a float held in halves.
FloatToInt64(h) == IF h >= 0 THEN h \div 2 ELSE 0 - ((0 - h) \div 2)

\* uint64(f).  A float below zero whose truncation is not zero has no
\* uint64 value and Go leaves the result to the implementation: amd64 yields
\* the bits of int64(f), arm64 saturates to 0.
FloatToUint64(h, ar) ==
  IF FloatToInt64(h) >= 0 THEN FloatToInt64(h)
  ELSE IF ar = "amd64" THEN FloatToInt64(h) ELSE 0

\* float64(i) for an integer of the model's range.
IntToFloat(n) == 2 * n

(***************************************************************************)
(* weakCopyValue                                                           *)
(***************************************************************************)

NoError == [kind |-> "none", srcK |-> "", dstK |-> ""]

ErrNotSettable == [kind |-> "not settable", srcK |-> "", dstK |-> ""]

\* fmt.Errorf("wrong type %s, expected value of type %s", srcK, dstK)
ErrWrongType(srcK, dstK) == [kind |-> "wrong type", srcK |-> srcK, dstK |-> dstK]

\* A run-time panic leaving the function.
Panic == [kind |-> "panic", srcK |-> "", dstK |-> ""]

\* reflect's assignability of a value of type srcT to a destination of type
\* dstT: for the defined (named or predeclared) types of the model, identity.
AssignableTo(srcT, dstT) == srcT = dstT

\* The destination with its number replaced (SetInt, SetUint, SetFloat keep
\* the destination's kind and type).
WithNum(dst, n) == [dst EXCEPT !.n = n]

\* reflect.Value.Set(src): the destination takes the source value; reflect
\* panics when the source's type is not assignable to the destination's.
SetValue(src, dst) ==
  IF AssignableTo(src.t, dst.t)
  THEN [err |-> NoError, dst |-> [dst EXCEPT !.n = src.n, !.s = src.s, !.a = src.a]]
  ELSE [err |-> Panic, dst |-> dst]

\* The weak numeric copy into a signed integer destination.
WeakToInt(src, dst, ar) ==
  LET srcK == src.k
      p    == ParseInt(src.s)
  IN  CASE isIntKind(srcK)   -> [err |-> NoError, dst |-> WithNum(dst, SetIntBits(dst.k, src.n))]
        [] isUintKind(srcK)  -> [err |-> NoError, dst |-> WithNum(dst, SetIntBits(dst.k, src.n))]
        [] isFloatKind(srcK) ->
             [err |-> NoError, dst |-> WithNum(dst, SetIntBits(dst.k, FloatToInt64(src.n)))]
        [] srcK = "String" /\ p.ok ->
             [err |-> NoError, dst |-> WithNum(dst, SetIntBits(dst.k, p.n))]
        [] OTHER -> [err |-> ErrWrongType(srcK, dst.k), dst |-> dst]

\* The weak numeric copy into an unsigned integer destination.
WeakToUint(src, dst, ar) ==
  LET srcK == src.k
      p    == ParseUint(src.s)
  IN  CASE isIntKind(srcK)   -> [err |-> NoError, dst |-> WithNum(dst, SetUintBits(dst.k, src.n))]
        [] isUintKind(srcK)  -> [err |-> NoError, dst |-> WithNum(dst, SetUintBits(dst.k, src.n))]
        [] isFloatKind(srcK) ->
             [err |-> NoError,
              dst |-> WithNum(dst, SetUintBits(dst.k, FloatToUint64(src.n, ar)))]
        [] srcK = "String" /\ p.ok ->
             [err |-> NoError, dst |-> WithNum(dst, SetUintBits(dst.k, p.n))]
        [] OTHER -> [err |-> ErrWrongType(srcK, dst.k), dst |-> dst]

\* The weak numeric copy into a floating point destination.
WeakToFloat(src, dst, ar) ==
  LET srcK == src.k
      p    == ParseFloat(src.s)
  IN  CASE isIntKind(srcK)   -> [err |-> NoError, dst |-> WithNum(dst, IntToFloat(src.n))]
        [] isUintKind(srcK)  -> [err |-> NoError, dst |-> WithNum(dst, IntToFloat(src.n))]
        [] isFloatKind(srcK) -> [err |-> NoError, dst |-> WithNum(dst, src.n)]
        [] srcK = "String" /\ p.ok -> [err |-> NoError, dst |-> WithNum(dst, p.n)]
        [] OTHER -> [err |-> ErrWrongType(srcK, dst.k), dst |-> dst]

\* weakCopyValue(src, dst): the outcome and the destination afterwards.
\* canSet is dst.CanSet(); ar is the architecture of the build.
weakCopyValue(src, dst, canSet, ar) ==
  IF ~canSet THEN [err |-> ErrNotSettable, dst |-> dst]
  ELSE IF src.k = dst.k THEN SetValue(src, dst)
  ELSE IF isNumericKind(dst.k) /\ isIntKind(dst.k) THEN WeakToInt(src, dst, ar)
  ELSE IF isNumericKind(dst.k) /\ isUintKind(dst.k) THEN WeakToUint(src, dst, ar)
  ELSE IF isNumericKind(dst.k) /\ isFloatKind(dst.k) THEN WeakToFloat(src, dst, ar)
  ELSE [err |-> ErrWrongType(src.k, dst.k), dst |-> dst]

(***************************************************************************)
(* Struct tags and Field Namers                                            *)
(***************************************************************************)

structTagKey == "configupdate"

NoTag == [configupdate |-> << >>, override |-> << >>, toml |-> << >>, json |-> << >>]

\* reflect.StructTag.Get(key): the tag's value, "" when the key is absent.
TagGet(tag, key) == IF key \in DOMAIN tag THEN tag[key] ELSE << >>

\* strings.Split(s, ",")[0]: the tokens before the first comma.
RECURSIVE FirstPart(_)
FirstPart(s) ==
  IF s = << >> \/ s[1] = "," THEN << >> ELSE <<s[1]>> \o FirstPart(Tail(s))

\* A namer that prefers the declared name over the tag (mutant).
tagFieldNameMutDeclared(tag, f) == f.Name

\* tagFieldName(tag, f)
tagFieldName(tag, f) ==
  LET name == FirstPart(TagGet(f.Tag, tag))
  IN  IF name = << >> THEN f.Name ELSE name

TomlFieldName(f) == tagFieldName("toml", f)

JSONFieldName(f) == tagFieldName("json", f)

RawFieldName(f) == f.Name

\* The FieldNameFunc values an engine can carry.
Namers == {"raw", "toml", "json"}

\* Application of the FieldNameFunc named fn.
FieldName(fn, f) ==
  CASE fn = "raw"  -> RawFieldName(f)
    [] fn = "toml" -> TomlFieldName(f)
    [] fn = "json" -> JSONFieldName(f)

(***************************************************************************)
(* The configuration type, after the TestConfig of the package's tests:    *)
(*   SectionA  SectionA   direct section, tagged `configupdate` and         *)
(*                        `override`                                       *)
(*   SectionB  SectionB   direct, carrying only the tests' `override` tag  *)
(*   SectionC  *SectionC  section behind one indirection, tagged both      *)
(*                        ways, with a nested struct below it              *)
(***************************************************************************)

Field(name, tag, k, t) == [Name |-> <<name>>, Tag |-> tag, k |-> k, t |-> t]

TypeFields ==
  [TestConfig |->
     << Field("SectionA",
              [NoTag EXCEPT !.configupdate = <<"section-a", ",", "omitempty">>,
                            !.override = <<"section-a">>],
              "Struct", "SectionA"),
        Field("SectionB", [NoTag EXCEPT !.override = <<"section-b">>],
              "Struct", "SectionB"),
        Field("SectionC",
              [NoTag EXCEPT !.configupdate = <<"section-c">>,
                            !.override = <<"section-c">>],
              "Ptr", "SectionC") >>,
   SectionA |->
     << Field("Option1",
              [NoTag EXCEPT !.toml = <<"toml-option1", ",", "omitempty">>,
                            !.json = <<"json-option1">>],
              "String", "String"),
        Field("Option2", [NoTag EXCEPT !.json = <<",", "omitempty">>],
              "String", "String") >>,
   SectionB |->
     << Field("Option3", [NoTag EXCEPT !.toml = <<"toml-option3">>],
              "String", "String") >>,
   SectionC |->
     << Field("Option4", [NoTag EXCEPT !.toml = <<"toml-option4">>], "Int64", "Int64"),
        Field("Inner", NoTag, "Struct", "Inner") >>,
   Inner |->
     << Field("Deep", NoTag, "Int8", "Int8") >> ]

(***************************************************************************)
(* Memory.  A cell holds one struct: a sequence of slots, one per field.   *)
(* A slot of kind Struct holds its struct inline: a names the cell that is *)
(* part of the enclosing struct's storage.  A slot of kind Ptr holds the   *)
(* address of another cell, or 0 for nil.                                  *)
(***************************************************************************)

\* Cells of one configuration object.
ObjCells == 5

\* Goroutines calling Update at once.
MaxGoroutines == 2

Goroutines == 1..MaxGoroutines

Addrs == 1..(ObjCells * (MaxGoroutines + 1))

FreeCell == << >>

RefV(k, t, a) == [k |-> k, t |-> t, n |-> 0, s |-> NoStr, a |-> a]

\* The TestConfig value of the tests (Option1 "o1", Option4 -1), at 1..5.
OriginalCells ==
  [a \in Addrs |->
     CASE a = 1 -> << RefV("Struct", "SectionA", 2), RefV("Struct", "SectionB", 3),
                      RefV("Ptr", "SectionC", 4) >>
       [] a = 2 -> << StrV(<<"o1">>), StrV(NoStr) >>
       [] a = 3 -> << StrV(<<"o3">>) >>
       [] a = 4 -> << IntV("Int64", 0 - 1), RefV("Struct", "Inner", 5) >>
       [] a = 5 -> << IntV("Int8", 7) >>
       [] OTHER -> FreeCell]

\* reflect.DeepEqual's view of a value: the tree below a slot, pointers
\* followed, addresses forgotten.
RECURSIVE DeepValue(_, _)
DeepValue(h, slot) ==
  [k |-> slot.k, t |-> slot.t, n |-> slot.n, s |-> slot.s,
   nil |-> (slot.k = "Ptr" /\ slot.a = 0),
   sub |-> IF slot.k \in {"Struct", "Ptr"} /\ slot.a # 0
           THEN [i \in 1..Len(h[slot.a]) |-> DeepValue(h, h[slot.a][i])]
           ELSE << >>]

(***************************************************************************)
(* copystructure.Copy                                                      *)
(***************************************************************************)

\* Where goroutine g's copy of the cell at a is allocated.
CopyAddr(a, g) == IF a = 0 THEN 0 ELSE a + g * ObjCells

\* No copy at all: the walker is handed the original (mutant).
CopyMutAlias(h, root, g) == [heap |-> h, root |-> root]

\* A copy that clones the structs but shares what their pointers point to
\* (mutant).
CopyMutShallow(h, root, g) ==
  [heap |-> [a \in Addrs |->
               IF a \in {CopyAddr(b, g) : b \in 1..ObjCells}
               THEN LET b == a - g * ObjCells
                    IN  [i \in 1..Len(h[b]) |->
                           [h[b][i] EXCEPT !.a = IF h[b][i].k = "Ptr" THEN h[b][i].a
                                                 ELSE CopyAddr(h[b][i].a, g)]]
               ELSE h[a]],
   root |-> [root EXCEPT !.a = CopyAddr(root.a, g)]]

\* copystructure.Copy(c.original) by goroutine g: every cell of the object
\* is cloned into fresh storage and every reference is redirected to the
\* clone.  Returns the memory afterwards and the copy.
Copy(h, root, g) ==
  [heap |-> [a \in Addrs |->
               IF a \in {CopyAddr(b, g) : b \in 1..ObjCells}
               THEN LET b == a - g * ObjCells
                    IN  [i \in 1..Len(h[b]) |->
                           [h[b][i] EXCEPT !.a = CopyAddr(h[b][i].a, g)]]
               ELSE h[a]],
   root |-> [root EXCEPT !.a = CopyAddr(root.a, g)]]

(***************************************************************************)
(* reflectwalk.Walk: the callbacks a walk of the value makes, in order.    *)
(* For each field of a struct: StructField(f, v), Enter(StructField), the  *)
(* walk of the field's value (pointers followed), Exit(StructField).       *)
(***************************************************************************)

NoField == Field("", NoTag, "Invalid", "")

Event(e, f, a, i, canSet) == [e |-> e, f |-> f, a |-> a, i |-> i, canSet |-> canSet]

\* The callbacks of walking the struct of type typ held in cell a.
\* addressable: whether the struct's fields can be set through the walk.
RECURSIVE walkStruct(_, _, _, _)
walkStruct(h, a, typ, addressable) ==
  LET RECURSIVE fields(_)
      fields(i) ==
        IF i > Len(h[a]) THEN << >>
        ELSE LET slot == h[a][i]
                 sub  == CASE slot.k = "Struct" -> walkStruct(h, slot.a, slot.t, addressable)
                           [] slot.k = "Ptr" /\ slot.a # 0 -> walkStruct(h, slot.a, slot.t, TRUE)
                           [] OTHER -> << >>
             IN  << Event("StructField", TypeFields[typ][i], a, i, addressable),
                    Event("Enter", NoField, 0, 0, FALSE) >>
                 \o sub
                 \o << Event("Exit", NoField, 0, 0, FALSE) >>
                 \o fields(i + 1)
  IN  fields(1)

\* reflectwalk.Walk(data, w): the callbacks for the value data; a pointer at
\* the top is followed, and only then are the fields addressable.
WalkEvents(h, data) ==
  CASE data.k = "Ptr" /\ data.a # 0 -> walkStruct(h, data.a, data.t, TRUE)
    [] data.k = "Struct" -> walkStruct(h, data.a, data.t, FALSE)
    [] OTHER -> << >>

(***************************************************************************)
(* configWalker                                                            *)
(***************************************************************************)

NoSectionValue == [valid |-> FALSE, a |-> 0, i |-> 0]

newWalker(section, name, set, fieldNameFunc) ==
  [section |-> section, name |-> name, set |-> set, used |-> {},
   sectionFieldName |-> << >>, sectionValue |-> NoSectionValue,
   fieldNameFunc |-> fieldNameFunc, currentFieldTag |-> << >>, depth |-> 0]

\* An unused list that is always empty (mutant).
unusedMutNone(w) == {}

\* configWalker.unused: the keys of the set not marked used.
unused(w) == {name \in DOMAIN w.set : name \notin w.used}

\* State of a walk: the walker, the memory, the error that ended it.
WalkState(w, h, err, option) == [w |-> w, h |-> h, err |-> err, option |-> option]

Enter(st) == [st EXCEPT !.w.depth = st.w.depth + 1]

Exit(st) == [st EXCEPT !.w.depth = st.w.depth - 1]

\* A section level that also matches the instance name against the field's
\* declared name (mutant).
SectionLevelMutName(st, ev) ==
  LET tag == FirstPart(TagGet(ev.f.Tag, structTagKey))
      w1  == [st.w EXCEPT !.currentFieldTag = tag]
  IN  IF st.w.section = tag /\ (st.w.name = << >> \/ st.w.name = ev.f.Name)
      THEN [st EXCEPT !.w = [w1 EXCEPT !.sectionFieldName = ev.f.Name,
                                       !.sectionValue = [valid |-> TRUE, a |-> ev.a, i |-> ev.i]]]
      ELSE [st EXCEPT !.w = w1]

\* The section level of StructField (depth 0).
SectionLevel(st, ev) ==
  LET tag == FirstPart(TagGet(ev.f.Tag, structTagKey))
      w1  == [st.w EXCEPT !.currentFieldTag = tag]
  IN  IF st.w.section = tag
      THEN [st EXCEPT !.w = [w1 EXCEPT !.sectionFieldName = ev.f.Name,
                                       !.sectionValue = [valid |-> TRUE, a |-> ev.a, i |-> ev.i]]]
      ELSE [st EXCEPT !.w = w1]

\* An option level that marks the key used without assigning it (mutant).
OptionLevelMutNoAssign(st, ev, ar) ==
  IF st.w.currentFieldTag # st.w.section THEN st
  ELSE LET name == FieldName(st.w.fieldNameFunc, ev.f)
       IN  IF name \in DOMAIN st.w.set
           THEN [st EXCEPT !.w.used = st.w.used \cup {name}]
           ELSE st

\* The option level of StructField (depth 1).
OptionLevel(st, ev, ar) ==
  IF st.w.currentFieldTag # st.w.section THEN st
  ELSE LET name == FieldName(st.w.fieldNameFunc, ev.f)
       IN  IF name \in DOMAIN st.w.set
           THEN LET r == weakCopyValue(st.w.set[name], st.h[ev.a][ev.i], ev.canSet, ar)
                IN  IF r.err.kind # "none"
                    THEN [st EXCEPT !.err = r.err, !.option = name]
                    ELSE [st EXCEPT !.h[ev.a][ev.i] = r.dst,
                                    !.w.used = st.w.used \cup {name}]
           ELSE st

\* A StructField that treats every depth below the sections as the option
\* level (mutant).
StructFieldMutAnyDepth(st, ev, ar) ==
  CASE st.w.depth = 0 -> SectionLevel(st, ev)
    [] OTHER -> OptionLevel(st, ev, ar)

\* configWalker.StructField(f, v)
StructField(st, ev, ar) ==
  CASE st.w.depth = 0 -> SectionLevel(st, ev)
    [] st.w.depth = 1 -> OptionLevel(st, ev, ar)
    [] OTHER -> st

\* One callback of the walk.
Callback(st, ev, ar) ==
  CASE ev.e = "StructField" -> StructField(st, ev, ar)
    [] ev.e = "Enter" -> Enter(st)
    [] ev.e = "Exit" -> Exit(st)

\* The walk from callback i on; it ends at the first error.
RECURSIVE RunWalk(_, _, _, _)
RunWalk(st, evs, i, ar) ==
  IF i > Len(evs) \/ st.err.kind # "none" THEN st
  ELSE RunWalk(Callback(st, evs[i], ar), evs, i + 1, ar)

(***************************************************************************)
(* ConfigUpdater                                                           *)
(***************************************************************************)

NoValue == [k |-> "None", t |-> "", n |-> 0, s |-> NoStr, nil |-> TRUE, sub |-> << >>]

\* What a call of Update leaves: the memory, the error (kind "none" on
\* success), the option a coercion error names, the unknown options, the
\* returned value (as reflect.DeepEqual sees it) and, when the returned
\* value is a pointer, the address it holds.
Outcome(h, err, option, unusedKeys, val, ref) ==
  [heap |-> h, err |-> err, option |-> option, unused |-> unusedKeys,
   val |-> val, ref |-> ref]

Err(kind) == [kind |-> kind, srcK |-> "", dstK |-> ""]

\* The storage of goroutine g's copy, reclaimed once the copy is dropped.
Discard(h, g) ==
  [a \in Addrs |-> IF a \in {CopyAddr(b, g) : b \in 1..ObjCells} THEN FreeCell ELSE h[a]]

\* configWalker.sectionObject: the current value of the section slot.
sectionObject(w, h) ==
  IF w.sectionValue.valid
  THEN DeepValue(h, h[w.sectionValue.a][w.sectionValue.i])
  ELSE NoValue

\* The end of Update, after a walk that returned no error.  This variant
\* looks for the section before the unused options (mutant).
FinishMutSectionFirst(st, g) ==
  IF sectionObject(st.w, st.h) = NoValue
  THEN Outcome(Discard(st.h, g), Err("unknown section"), << >>, {}, NoValue, 0)
  ELSE IF unused(st.w) # {}
  THEN Outcome(Discard(st.h, g), Err("unknown options"), << >>, unused(st.w), NoValue, 0)
  ELSE LET slot == st.h[st.w.sectionValue.a][st.w.sectionValue.i]
       IN  Outcome(st.h, NoError, << >>, {}, sectionObject(st.w, st.h),
                   IF slot.k = "Ptr" THEN slot.a ELSE 0)

\* The end of Update: the walk's error, the unused options, the section.
Finish(st, g) ==
  IF st.err.kind # "none"
  THEN Outcome(Discard(st.h, g), st.err, st.option, {}, NoValue, 0)
  ELSE IF unused(st.w) # {}
  THEN Outcome(Discard(st.h, g), Err("unknown options"), << >>, unused(st.w), NoValue, 0)
  ELSE IF sectionObject(st.w, st.h) = NoValue
  THEN Outcome(Discard(st.h, g), Err("unknown section"), << >>, {}, NoValue, 0)
  ELSE LET slot == st.h[st.w.sectionValue.a][st.w.sectionValue.i]
       IN  Outcome(st.h, NoError, << >>, {}, sectionObject(st.w, st.h),
                   IF slot.k = "Ptr" THEN slot.a ELSE 0)

\* ConfigUpdater.Update(section, name, set) run by goroutine g on memory h.
Update(h, c, g, section, name, set, ar) ==
  IF section = << >>
  THEN Outcome(h, Err("section cannot be empty"), << >>, {}, NoValue, 0)
  ELSE LET cp  == Copy(h, c.original, g)
           w   == newWalker(section, name, set, c.FieldNameFunc)
           st  == RunWalk(WalkState(w, cp.heap, NoError, << >>),
                          WalkEvents(cp.heap, cp.root), 1, ar)
       IN  Finish(st, g)

(***************************************************************************)
(* Inputs                                                                  *)
(***************************************************************************)

\* Most keys in one override set.
MaxSetSize == 2

\* Most fields of one struct type of the configuration.
MaxFields == 2

Archs == {"amd64", "arm64"}

Sections ==
  { << >>, <<"section-a">>, <<"section-b">>, <<"section-c">>, <<"SectionA">>,
    <<"unknown">> }

Names == { << >>, <<"instance">> }

Keys ==
  { <<"Option1">>, <<"toml-option1">>, <<"json-option1">>, <<"Option2">>,
    <<"Option4">>, <<"Deep">>, <<"typo">> }

\* A value of a defined type whose kind is Int64 (such as time.Duration).
DurationV(n) == Val("Int64", "Duration", n, NoStr)

SetValues == { StrV(<<"new">>), IntV("Int", 42), DurationV(5) }

(***************************************************************************)
(* The key/value store behind the OverrideDAO (storage.Interface): a map   *)
(* from keys to byte values.  A key is a string, held as its tokens.       *)
(***************************************************************************)

EmptyStore == [key \in {} |-> << >>]

\* Put(key, value): the key holds the value afterwards.
storePut(st, key, value) ==
  [k \in DOMAIN st \cup {key} |-> IF k = key THEN value ELSE st[k]]

\* Exists(key)
storeExists(st, key) == key \in DOMAIN st

\* Get(key): the value of a key that exists.
storeGet(st, key) == st[key]

\* Delete(key): the key is absent afterwards; deleting an absent key is no
\* error.
storeDelete(st, key) == [k \in DOMAIN st \ {key} |-> st[k]]

\* strings.HasPrefix(key, prefix)
HasPrefix(key, prefix) ==
  Len(key) >= Len(prefix) /\ SubSeq(key, 1, Len(prefix)) = prefix

\* List(prefix): the values held under the keys that start with prefix.
storeList(st, prefix) == {st[k] : k \in {x \in DOMAIN st : HasPrefix(x, prefix)}}

(***************************************************************************)
(* overrideKV, the OverrideDAO on the store.  An Override is its ID and    *)
(* its map of overrides: whether the map is nil, and its entries.          *)
(***************************************************************************)

ErrNoOverrideExists == "no override exists"

\* An error returned by the store (the database is closed or failing).
ErrStore == "store error"

\* gob: type not registered for interface
ErrGobType == "gob: type not registered for interface"

overrideDataPrefix == <<"/overrides/data/">>

overrideIndexesPrefix == <<"/overrides/indexes/">>

idIndex == <<"id/">>

\* The entries of an empty map.
NoEntries == [key \in {} |-> NilValue]

\* A map that is not nil, with entries m.
GoMap(m) == [nil |-> FALSE, m |-> m]

\* make(map[string]interface{})
EmptyMap == GoMap(NoEntries)

\* The nil map.
NilMap == [nil |-> TRUE, m |-> NoEntries]

\* Override{}: the zero value.
ZeroOverride == [ID |-> << >>, Overrides |-> NilMap]

NewOverride(id, overrides) == [ID |-> id, Overrides |-> overrides]

\* The kinds of the types encoding/gob registers by itself; a value of any
\* other type inside an interface{} cannot be encoded.  nil is encoded as
\* the nil interface.
GobBasicKinds ==
  {"Invalid", "Bool", "Int", "Int8", "Int16", "Int32", "Int64", "Uint", "Uint8",
   "Uint16", "Uint32", "Uint64", "Uintptr", "Float32", "Float64", "Complex64", "String"}

\* encodeOverride: the gob stream of the struct, field by field; a field
\* holding its zero value is omitted, a map that is not nil is sent even
\* when empty.
encodeOverride(o) ==
  IF \E k \in DOMAIN o.Overrides.m : o.Overrides.m[k].k \notin GobBasicKinds
  THEN [err |-> ErrGobType, data |-> << >>]
  ELSE [err |-> "none",
        data |-> (IF o.ID = << >> THEN << >> ELSE << [field |-> "ID", v |-> o.ID] >>)
                 \o (IF o.Overrides.nil THEN << >>
                     ELSE << [field |-> "Overrides", v |-> o.Overrides] >>)]

\* decodeOverride: the fields of the stream written into a zero Override.
RECURSIVE decodeFields(_, _)
decodeFields(data, o) ==
  IF data = << >> THEN o
  ELSE decodeFields(Tail(data),
                    IF Head(data).field = "ID" THEN [o EXCEPT !.ID = Head(data).v]
                    ELSE [o EXCEPT !.Overrides = Head(data).v])

decodeOverride(data) == [err |-> "none", val |-> decodeFields(data, ZeroOverride)]

overrideDataKey(id) == overrideDataPrefix \o id

overrideIndexKey(index, value) == overrideIndexesPrefix \o index \o value

\* overrideKV.Get(id) on store st; up: whether the store serves the calls.
overrideKV_Get(st, id, up) ==
  LET key == overrideDataKey(id)
  IN  IF ~up THEN [err |-> ErrStore, val |-> ZeroOverride]
      ELSE IF ~storeExists(st, key) THEN [err |-> ErrNoOverrideExists, val |-> ZeroOverride]
      ELSE decodeOverride(storeGet(st, key))

\* A Set that creates an override but does not replace one (mutant).
overrideKV_SetMutCreateOnly(st, o, up) ==
  LET key == overrideDataKey(o.ID)
      enc == encodeOverride(o)
  IN  IF enc.err # "none" THEN [err |-> enc.err, store |-> st]
      ELSE IF ~up THEN [err |-> ErrStore, store |-> st]
      ELSE IF storeExists(st, key) THEN [err |-> "none", store |-> st]
      ELSE [err |-> "none", store |-> storePut(st, key, enc.data)]

\* overrideKV.Set(o): the encoded override is put under the data key.
overrideKV_Set(st, o, up) ==
  LET key == overrideDataKey(o.ID)
      enc == encodeOverride(o)
  IN  IF enc.err # "none" THEN [err |-> enc.err, store |-> st]
      ELSE IF ~up THEN [err |-> ErrStore, store |-> st]
      ELSE [err |-> "none", store |-> storePut(st, key, enc.data)]

\* overrideKV.Delete(id): the data key and the index key are deleted.
overrideKV_Delete(st, id, up) ==
  LET key      == overrideDataKey(id)
      indexKey == overrideIndexKey(idIndex, id)
  IN  IF ~up THEN [err |-> ErrStore, store |-> st]
      ELSE [err |-> "none", store |-> storeDelete(storeDelete(st, key), indexKey)]

\* overrideKV.List(): the overrides of the ids held under the ID index.
overrideKV_List(st, up) ==
  IF ~up THEN [err |-> ErrStore, val |-> {}]
  ELSE LET ids  == storeList(st, overrideIndexesPrefix \o idIndex)
           gets == [id \in ids |-> overrideKV_Get(st, id, up)]
       IN  IF \E id \in ids : gets[id].err # "none"
           THEN [err |-> (CHOOSE e \in {gets[id].err : id \in ids} : e # "none"), val |-> {}]
           ELSE [err |-> "none", val |-> {gets[id].val : id \in ids}]

\* The overrides a caller of the DAO has set and not deleted since: for
\* each such id the override of the last Set that returned no error, and
\* whether that Set replaced an earlier override.
NoRef == [id \in {} |-> [o |-> ZeroOverride, replaced |-> FALSE]]

\* No call of the DAO yet: the last call (op, id, the error and the value
\* or list it returned) and the overrides set so far.
NoDao ==
  [op |-> "none", id |-> << >>, err |-> "none", val |-> ZeroOverride, list |-> {},
   ref |-> NoRef]

(***************************************************************************)
(* The engine: New, FieldNameFunc assignment and Update in sequence.  The  *)
(* caller prepares a call (section, name, and a map filled key by key),    *)
(* then makes it; last holds the call and, once returned, its outcome.     *)
(***************************************************************************)

NoCall ==
  [phase |-> "idle", section |-> << >>, name |-> << >>, set |-> << >>, namer |-> "raw",
   err |-> NoError, option |-> << >>, unused |-> {}, val |-> NoValue, ref |-> 0]

\* A goroutine that is not in a call.
IdleCall ==
  [pc |-> "idle", section |-> << >>, name |-> << >>, set |-> << >>,
   w |-> newWalker(<< >>, << >>, << >>, "raw"), evs |-> << >>, pos |-> 0,
   err |-> NoError, option |-> << >>, unused |-> {}, val |-> NoValue, ref |-> 0]

IdleCalls == [g \in Goroutines |-> IdleCall]

\* No coercion back yet.
NoBack == [done |-> FALSE, err |-> NoError, dst |-> NilValue]

\* No coercion yet: the outcome of weakCopyValue and of the coercion of its
\* result back into a field of the source's type.
NoCoercion == [done |-> FALSE, err |-> NoError, dst |-> NilValue, back |-> NoBack]

\* No request handled yet.  A request is its path and body; what the
\* handler derived and did (section, name, whether the body decoded, whether
\* the merged map was persisted, the map handed to Override and what
\* Override returned); how it ended (the status code written, 0 for none;
\* whether it panicked; the ConfigUpdates it sent); and, for the record, the
\* map the previous request persisted for the section (before), the
\* rejection the previous request to reach Override on the section met
\* (prevRej) and whether the service was open.
NoRejection == [kind |-> "none", keys |-> {}]

NoRequest ==
  [started |-> FALSE, path |-> << >>, body |-> [json |-> "bad", set |-> NoEntries, delete |-> << >>],
   section |-> << >>, name |-> << >>,
   decoded |-> FALSE, persisted |-> FALSE, handed |-> NilMap,
   err |-> NoError, option |-> << >>, unused |-> {}, val |-> NoValue,
   code |-> 0, panicked |-> FALSE, sent |-> << >>,
   before |-> NoEntries, prevRej |-> NoRejection, wasOpen |-> FALSE]

\* NewService(config, l, updates): no OverrideDAO until Open; the updates
\* channel is empty and open.  pc is where the handler stands, n counts the
\* requests; hist and rej record, per section, the map last persisted and
\* the rejection last met.
NoService ==
  [opened |-> FALSE, closed |-> FALSE, updates |-> << >>, pc |-> "idle", n |-> 0,
   req |-> NoRequest,
   hist |-> [id \in {} |-> NoEntries],
   rej |-> [id \in {} |-> NoRejection]]

\* New(config): the engine retains config and names fields by RawFieldName.
New(config) == [original |-> config, FieldNameFunc |-> "raw"]

Init ==
  /\ arch \in Archs
  /\ heap = OriginalCells
  /\ \E k \in {"Ptr", "Struct"} : cu = New(RefV(k, "TestConfig", 1))
  /\ snap = DeepValue(heap, cu.original)
  /\ last = NoCall
  /\ calls = IdleCalls
  /\ csrc = NilValue /\ cdst = NilValue /\ cset = FALSE /\ cout = NoCoercion
  /\ store = EmptyStore /\ dao = NoDao /\ svc = NoService

\* cu.FieldNameFunc = fn, between calls; the last returned value is dropped.
SetFieldNameFunc(fn) ==
  /\ last.phase # "args"
  /\ fn # cu.FieldNameFunc
  /\ cu' = [cu EXCEPT !.FieldNameFunc = fn]
  /\ last' = NoCall
  /\ heap' = Discard(heap, 1)
  /\ UNCHANGED <<arch, snap, calls, csrc, cdst, cset, cout, store, dao, svc>>

\* The caller drops the value the last call returned and starts preparing
\* the next call: set := map[string]interface{}{}
Prepare(section, name) ==
  /\ last.phase # "args"
  /\ last' = [NoCall EXCEPT !.phase = "args", !.section = section, !.name = name]
  /\ heap' = Discard(heap, 1)
  /\ UNCHANGED <<arch, cu, snap, calls, csrc, cdst, cset, cout, store, dao, svc>>

\* set[k] = v
PutKey(k, v) ==
  /\ last.phase = "args"
  /\ k \notin DOMAIN last.set
  /\ Cardinality(DOMAIN last.set) < MaxSetSize
  /\ last' = [last EXCEPT !.set = [x \in DOMAIN last.set \cup {k} |->
                                     IF x = k THEN v ELSE last.set[x]]]
  /\ UNCHANGED <<arch, heap, cu, snap, calls, csrc, cdst, cset, cout, store, dao, svc>>

\* cu.Update(section, name, set), start to return.
Override ==
  /\ last.phase = "args"
  /\ \E r \in {Update(heap, cu, 1, last.section, last.name, last.set, arch)} :
         /\ heap' = r.heap
         /\ last' = [last EXCEPT !.phase = "returned", !.namer = cu.FieldNameFunc,
                                 !.err = r.err, !.option = r.option,
                                 !.unused = r.unused, !.val = r.val, !.ref = r.ref]
  /\ UNCHANGED <<arch, cu, snap, calls, csrc, cdst, cset, cout, store, dao, svc>>

\* What the caller's write leaves in a scalar slot.
Mutated(slot) ==
  IF slot.k = "String" THEN [slot EXCEPT !.s = <<"mutated">>]
  ELSE [slot EXCEPT !.n = slot.n + 1]

\* The caller writes field i of the value the last call returned, as the
\* tests' callers may: through the pointer when the section is returned as
\* one (a nested struct is written in its first field), and in its own copy
\* of the struct when the section is returned by value.
Mutate(i) ==
  /\ last.phase = "returned"
  /\ last.err.kind = "none"
  /\ i <= Len(last.val.sub)
  /\ IF last.ref # 0
     THEN \E slot \in {heap[last.ref][i]} :
          \E h \in {IF slot.k = "Struct"
                     THEN [heap EXCEPT ![slot.a][1] = Mutated(heap[slot.a][1])]
                     ELSE [heap EXCEPT ![last.ref][i] = Mutated(slot)]} :
            /\ heap' = h
            /\ last' = [last EXCEPT !.phase = "mutated",
                                    !.val = DeepValue(h, RefV("Ptr", last.val.t, last.ref))]
     ELSE /\ heap' = heap
          /\ last' = [last EXCEPT !.phase = "mutated",
                                  !.val.sub[i] = Mutated(last.val.sub[i])]
  /\ UNCHANGED <<arch, cu, snap, calls, csrc, cdst, cset, cout, store, dao, svc>>

Next ==
  \/ \E fn \in Namers : SetFieldNameFunc(fn)
  \/ \E section \in Sections, name \in Names : Prepare(section, name)
  \/ \E k \in Keys, v \in SetValues : PutKey(k, v)
  \/ Override
  \/ \E i \in 1..MaxFields : Mutate(i)

Spec == Init /\ [][Next]_vars

(***************************************************************************)
(* The coercer alone: one source value, one destination field              *)
(***************************************************************************)

\* A value of a defined type whose kind is String.
LabelV(s) == Val("String", "Label", 0, s)

SrcValues ==
  { NilValue, Val("Bool", "Bool", 1, NoStr),
    IntV("Int", 42), IntV("Int8", 0 - 1), IntV("Int16", 300), IntV("Int64", 0 - 129),
    IntV("Uint", 42), IntV("Uint8", 200), IntV("Uint16", 40000), IntV("Uint64", 7),
    IntV("Uintptr", 5),
    FloatV("Float32", 9), FloatV("Float64", 0 - 15), FloatV("Float64", 0 - 1),
    StrV(<<"4", "2">>), StrV(<<"-", "7">>), StrV(<<"+", "5">>), StrV(<<"4", ".", "5">>),
    StrV(<<"3", "0", "0">>), StrV(<<"a", "b", "c">>), StrV(NoStr), StrV(<<".">>),
    DurationV(5), LabelV(<<"x">>) }

DstValues ==
  { Val("Bool", "Bool", 0, NoStr),
    IntV("Int", 1), IntV("Int8", 1), IntV("Int16", 1), IntV("Int32", 1), IntV("Int64", 1),
    IntV("Uint", 1), IntV("Uint8", 1), IntV("Uint16", 1), IntV("Uint32", 1),
    IntV("Uint64", 1), IntV("Uintptr", 1),
    FloatV("Float32", 2), FloatV("Float64", 2),
    StrV(<<"old">>), DurationV(1) }

InitCoerce ==
  /\ arch \in Archs
  /\ csrc \in SrcValues
  /\ cdst \in DstValues
  /\ cset \in BOOLEAN
  /\ cout = NoCoercion
  /\ heap = OriginalCells
  /\ cu = New(RefV("Ptr", "TestConfig", 1))
  /\ snap = DeepValue(heap, cu.original)
  /\ last = NoCall
  /\ calls = IdleCalls
  /\ store = EmptyStore /\ dao = NoDao /\ svc = NoService

\* weakCopyValue(reflect.ValueOf(csrc), cdst)
Coerce ==
  /\ ~cout.done
  /\ \E r \in {weakCopyValue(csrc, cdst, cset, arch)} :
       cout' = [done |-> TRUE, err |-> r.err, dst |-> r.dst, back |-> NoBack]
  /\ UNCHANGED <<arch, heap, cu, snap, last, calls, csrc, cdst, cset, store, dao, svc>>

\* The zero value of a settable field of the type of v.
ZeroField(v) == Val(v.k, v.t, 0, NoStr)

\* weakCopyValue(reflect.ValueOf(result), back), where result is what the
\* first coercion assigned and back is a settable field of the source's type.
CoerceBack ==
  /\ cout.done
  /\ cout.err.kind = "none"
  /\ ~cout.back.done
  /\ csrc.k # "Invalid"
  /\ \E r \in {weakCopyValue(cout.dst, ZeroField(csrc), TRUE, arch)} :
       cout' = [cout EXCEPT !.back = [done |-> TRUE, err |-> r.err, dst |-> r.dst]]
  /\ UNCHANGED <<arch, heap, cu, snap, last, calls, csrc, cdst, cset, store, dao, svc>>

NextCoerce ==
  \/ Coerce
  \/ CoerceBack

SpecCoerce == InitCoerce /\ [][NextCoerce]_vars

(***************************************************************************)
(* Properties                                                              *)
(***************************************************************************)

Returned == last.phase = "returned"

Succeeded == Returned /\ last.err.kind = "none"

TopFields == TypeFields["TestConfig"]

\* The section tag of top-level field j, as the engine reads it.
SectionTag(j) == FirstPart(TagGet(TopFields[j].Tag, structTagKey))

\* The top-level fields carrying the section tag.
TargetFields(section) == {j \in 1..Len(TopFields) : SectionTag(j) = section}

\* The options (depth 1) of top-level field j.
Options(j) == TypeFields[TopFields[j].t]

\* External names of the options of the fields tagged section, under namer fn.
OptionNames(section, fn) ==
  {FieldName(fn, Options(j)[i]) : <<j, i>> \in
     {p \in (1..Len(TopFields)) \X (1..2) : p[1] \in TargetFields(section)
                                           /\ p[2] <= Len(Options(p[1]))}}

\* The original's value of top-level field j, from the snapshot taken at
\* construction.
OriginalSection(j) == snap.sub[j]

\* The value an option holding orig has after src is coerced into it.
Coerced(orig, src) ==
  LET r == weakCopyValue(src, [k |-> orig.k, t |-> orig.t, n |-> orig.n, s |-> orig.s, a |-> 0],
                         TRUE, arch)
  IN  [orig EXCEPT !.n = r.dst.n, !.s = r.dst.s]

\* C1: after any sequence of calls, succeeding or failing, the configuration
\* the engine retains is structurally equal to the snapshot taken before the
\* first call.
C1_OriginalUnchanged == DeepValue(heap, cu.original) = snap

\* A call succeeded and returned a section that differs from the original's.
C1_Witness ==
  /\ Succeeded
  /\ \E j \in TargetFields(last.section) : last.val # OriginalSection(j)

\* C2: on success, every option of the returned section whose external name
\* is a key of the set holds the coerced value of that key, every key of the
\* set is the external name of an option of the returned section, and every
\* other option equals the original's.
C2_Containment ==
  Succeeded =>
    \E j \in TargetFields(last.section) :
      /\ \A k \in DOMAIN last.set :
           \E i \in 1..Len(Options(j)) : FieldName(last.namer, Options(j)[i]) = k
      /\ Len(last.val.sub) = Len(Options(j))
      /\ \A i \in 1..Len(Options(j)) :
           LET name == FieldName(last.namer, Options(j)[i])
               orig == OriginalSection(j).sub[i]
           IN  last.val.sub[i] = IF name \in DOMAIN last.set
                                 THEN Coerced(orig, last.set[name])
                                 ELSE orig

\* A successful call that set one option and left another as it was.
C2_Witness ==
  /\ Succeeded
  /\ last.section = <<"section-c">>
  /\ DOMAIN last.set = {<<"Option4">>}
  /\ last.val.sub[1].n = 42
  /\ last.val.sub[2] = OriginalSection(3).sub[2]

\* The keys of the last call's set that name no option of the target section.
UnknownKeys == DOMAIN last.set \ OptionNames(last.section, last.namer)

\* Whether the last call's set holds, for some option of the target section,
\* a value the coercer does not assign (by value root: nothing is settable).
SomeKeyNotAssigned ==
  \E j \in TargetFields(last.section) : \E i \in 1..Len(Options(j)) :
    LET name == FieldName(last.namer, Options(j)[i])
        orig == OriginalSection(j).sub[i]
    IN  /\ name \in DOMAIN last.set
        /\ weakCopyValue(last.set[name],
                         [k |-> orig.k, t |-> orig.t, n |-> orig.n, s |-> orig.s, a |-> 0],
                         cu.original.k = "Ptr" \/ TopFields[j].k = "Ptr",
                         arch).err.kind # "none"

\* C3 as stated: a key that is not the external name of an option of the
\* target section makes the call fail with the Unknown-Options error listing
\* every such key, and return no value.
C3_AsStated ==
  Returned /\ UnknownKeys # {} =>
    /\ last.err.kind = "unknown options"
    /\ last.unused = UnknownKeys
    /\ last.val = NoValue

\* C3 (amended): a key that is not the external name of an option of the
\* target section makes the call fail and return no value; the error is the
\* Unknown-Options error, listing every such key, exactly when the section
\* is not empty and no key that does name an option fails in the coercer;
\* an empty section is rejected first, and a coercion failure (type
\* mismatch, not settable, panic) ends the walk before the unused keys are
\* looked at.
C3_UnusedKeysFatal ==
  Returned /\ UnknownKeys # {} =>
    /\ last.err.kind # "none"
    /\ last.val = NoValue
    /\ last.section = << >> => last.err.kind = "section cannot be empty"
    /\ last.section # << >> /\ SomeKeyNotAssigned =>
         last.err.kind \in {"wrong type", "not settable", "panic"}
    /\ last.section # << >> /\ ~SomeKeyNotAssigned =>
         last.err.kind = "unknown options" /\ last.unused = UnknownKeys

\* A call with two unknown keys, one of them an option of another section,
\* failed listing both.
C3_Witness ==
  /\ Returned
  /\ last.section = <<"section-a">>
  /\ last.err.kind = "unknown options"
  /\ last.unused = {<<"Option4">>, <<"typo">>}

\* The non-empty section strings that are no top-level field's section tag.
UnknownSection == last.section # << >> /\ TargetFields(last.section) = {}

\* C4 as stated: an unknown section fails with the Unknown-section error,
\* whatever the set.
C4_AsStated == Returned /\ UnknownSection => last.err.kind = "unknown section"

\* C4 (amended): a non-empty section string that is no top-level field's
\* section tag makes the call fail: with the Unknown-section error when the
\* set is empty, and with the Unknown-Options error listing every key of the
\* set when it is not (the unused keys are examined before the section).
C4_UnknownSection ==
  Returned /\ UnknownSection =>
    /\ last.val = NoValue
    /\ last.set = << >> => last.err.kind = "unknown section"
    /\ last.set # << >> =>
         last.err.kind = "unknown options" /\ last.unused = DOMAIN last.set

\* Both cases: an unknown section with a key in the set and with none.
C4_Witness ==
  /\ Returned
  /\ last.section = <<"unknown">>
  /\ last.set # << >>
  /\ last.err.kind = "unknown options"

\* The top-level fields whose `override` tag starts with the section string.
OverrideTagged(section) ==
  {j \in 1..Len(TopFields) : FirstPart(TagGet(TopFields[j].Tag, "override")) = section}

\* C7: a top-level field is the target section exactly when the first
\* comma-separated element of its `override` tag equals the requested
\* section (seen on calls with an empty set: the call succeeds, returning
\* that field's value, exactly when such a field exists); the declared name
\* never selects a field.
C7_OverrideTagSelects ==
  Returned /\ last.section # << >> /\ last.set = << >> =>
    /\ last.err.kind = "none" <=> OverrideTagged(last.section) # {}
    /\ last.err.kind = "none" =>
         \E j \in OverrideTagged(last.section) : last.val = OriginalSection(j)

\* The namer's tag key.
NamerTag(fn) == IF fn = "toml" THEN "toml" ELSE "json"

\* C8: under a tag-based namer an option whose tag has a non-empty first
\* element x is addressed by x and never by its declared name (a key equal
\* to the declared name, naming nothing else, makes the call fail, as an
\* unknown option whenever the walk ends without a coercion failure); an
\* option whose tag is absent or has an empty first element is addressed by
\* its declared name.
C8_TagPrecedence ==
  Returned /\ last.namer \in {"toml", "json"} =>
    \A j \in TargetFields(last.section) : \A i \in 1..Len(Options(j)) :
      LET f    == Options(j)[i]
          x    == FirstPart(TagGet(f.Tag, NamerTag(last.namer)))
          ext  == IF x # << >> THEN x ELSE f.Name
          orig == OriginalSection(j).sub[i]
      IN  /\ x # << >> /\ f.Name \in DOMAIN last.set =>
               /\ last.err.kind \in {"unknown options", "wrong type", "not settable", "panic"}
               /\ last.err.kind = "unknown options" => f.Name \in last.unused
          /\ Succeeded =>
               last.val.sub[i] = IF ext \in DOMAIN last.set
                                 THEN Coerced(orig, last.set[ext])
                                 ELSE orig

\* Under the toml namer Option1 was set through its tag name and Option2,
\* which has no toml tag, through its declared name.
C8_Witness ==
  /\ Succeeded
  /\ last.namer = "toml"
  /\ DOMAIN last.set = {<<"toml-option1">>, <<"Option2">>}
  /\ last.val.sub[1].s = <<"new">>
  /\ last.val.sub[2].s = <<"new">>

\* C9: the name argument does not influence the outcome: the call made with
\* any other name returns the same value and the same error.
C9_NameIgnored ==
  Returned =>
    \A n2 \in Names \ {last.name} :
      LET r2 == Update(Discard(heap, 1), cu, 1, last.section, n2, last.set, arch)
      IN  /\ r2.val = last.val
          /\ r2.err = last.err
          /\ r2.unused = last.unused

\* A call with a non-empty name succeeded in changing a section.
C9_Witness ==
  /\ Succeeded
  /\ last.name = <<"instance">>
  /\ \E j \in TargetFields(last.section) : last.val # OriginalSection(j)

\* The cells that make up the storage of a value: the structs it holds and
\* the structs its pointers lead to.
RECURSIVE Cells(_, _)
Cells(h, slot) ==
  IF slot.k \in {"Struct", "Ptr"} /\ slot.a # 0
  THEN {slot.a} \cup UNION {Cells(h, h[slot.a][i]) : i \in 1..Len(h[slot.a])}
  ELSE {}

\* C11: a successful call on a section stored behind a pointer returns a
\* pointer, and one on a section stored directly returns the struct; the
\* returned pointer leads to the updated section (the keys of the set
\* coerced into their options, the other options as in the original) and to
\* storage that shares no cell with the engine's original; and after the
\* caller has written a field of the returned value, through the returned
\* pointer included, the original still equals the snapshot taken at
\* construction.
C11_ReturnedIsolated ==
  /\ Succeeded =>
       \E j \in TargetFields(last.section) :
         /\ last.val.k = TopFields[j].k
         /\ (TopFields[j].k = "Ptr") = (last.ref # 0)
         /\ last.ref # 0 =>
              /\ last.val = DeepValue(heap, RefV("Ptr", TopFields[j].t, last.ref))
              /\ ~last.val.nil
              /\ Cells(heap, RefV("Ptr", TopFields[j].t, last.ref))
                   \cap Cells(heap, cu.original) = {}
              /\ \A i \in 1..Len(Options(j)) :
                   LET name == FieldName(last.namer, Options(j)[i])
                       orig == OriginalSection(j).sub[i]
                   IN  last.val.sub[i] = IF name \in DOMAIN last.set
                                         THEN Coerced(orig, last.set[name])
                                         ELSE orig
  /\ last.phase = "mutated" => DeepValue(heap, cu.original) = snap

\* The pointer section was returned with Option4 set, and the caller then
\* wrote the nested field Deep through the returned pointer.
C11_Witness ==
  /\ last.phase = "mutated"
  /\ last.ref # 0
  /\ DOMAIN last.set = {<<"Option4">>}
  /\ last.val.sub[1].n = 42
  /\ last.val.sub[2].sub[1].n = 8
  /\ snap.sub[3].sub[2].sub[1].n = 7

(***************************************************************************)
(* Update called from several goroutines at once.  A call is a sequence of *)
(* steps on the shared memory: the copy, each StructField callback of the  *)
(* walk, and the end of Update; steps of different calls interleave        *)
(* freely.  Enter and Exit touch only the depth of the call's own walker   *)
(* and are taken together with the StructField callback they follow.       *)
(***************************************************************************)

Arg(section, k, v) == [section |-> section, name |-> << >>, set |-> [x \in {k} |-> v]]

\* A call with the two keys Deep and Option4.
ArgDeep(section, vDeep, vOption4) ==
  [section |-> section, name |-> <<"instance">>,
   set |-> [x \in {<<"Deep">>, <<"Option4">>} |->
              IF x = <<"Deep">> THEN vDeep ELSE vOption4]]

ConcArgs ==
  { [section |-> << >>, name |-> << >>, set |-> << >>],
    [section |-> <<"section-c">>, name |-> <<"instance">>, set |-> << >>],
    Arg(<<"section-a">>, <<"Option1">>, IntV("Int", 42)),
    Arg(<<"section-c">>, <<"Option4">>, IntV("Int", 42)),
    Arg(<<"section-c">>, <<"Deep">>, IntV("Int", 42)),
    ArgDeep(<<"section-c">>, IntV("Int", 42), StrV(<<"new">>)) }

InitConc == Init

\* Update up to the walk: the empty section is rejected, else the original
\* is copied and the walker made.
Begin(g, arg) ==
  /\ calls[g].pc = "idle"
  /\ IF arg.section = << >>
     THEN /\ calls' = [calls EXCEPT ![g] =
                         [IdleCall EXCEPT !.pc = "done", !.section = arg.section,
                                          !.name = arg.name, !.set = arg.set,
                                          !.err = Err("section cannot be empty")]]
          /\ heap' = heap
     ELSE \E cp \in {Copy(heap, cu.original, g)} :
            /\ heap' = cp.heap
            /\ calls' = [calls EXCEPT ![g] =
                           [IdleCall EXCEPT !.pc = "walk", !.section = arg.section,
                                            !.name = arg.name, !.set = arg.set,
                                            !.w = newWalker(arg.section, arg.name, arg.set,
                                                            cu.FieldNameFunc),
                                            !.evs = WalkEvents(cp.heap, cp.root),
                                            !.pos = 1]]
  /\ UNCHANGED <<arch, cu, snap, last, csrc, cdst, cset, cout, store, dao, svc>>

\* The position of the first StructField callback of evs at or after i.
RECURSIVE NextStructField(_, _)
NextStructField(evs, i) ==
  IF i > Len(evs) \/ evs[i].e = "StructField" THEN i ELSE NextStructField(evs, i + 1)

\* The walk from callback i up to callback j (not included).
RECURSIVE RunUpTo(_, _, _, _, _)
RunUpTo(st, evs, i, j, ar) ==
  IF i >= j \/ st.err.kind # "none" THEN st
  ELSE RunUpTo(Callback(st, evs[i], ar), evs, i + 1, j, ar)

\* The next StructField callback of goroutine g's walk, with the Enter and
\* Exit callbacks after it.
Step(g) ==
  /\ calls[g].pc = "walk"
  /\ calls[g].pos <= Len(calls[g].evs)
  /\ calls[g].err.kind = "none"
  /\ \E j \in {NextStructField(calls[g].evs, calls[g].pos + 1)} :
     \E st \in {RunUpTo(WalkState(calls[g].w, heap, NoError, << >>),
                        calls[g].evs, calls[g].pos, j, arch)} :
       /\ heap' = st.h
       /\ calls' = [calls EXCEPT ![g].w = st.w, ![g].err = st.err,
                                 ![g].option = st.option, ![g].pos = j]
  /\ UNCHANGED <<arch, cu, snap, last, csrc, cdst, cset, cout, store, dao, svc>>

\* The end of goroutine g's Update, after the walk returned.
End(g) ==
  /\ calls[g].pc = "walk"
  /\ calls[g].pos > Len(calls[g].evs) \/ calls[g].err.kind # "none"
  /\ \E r \in {Finish(WalkState(calls[g].w, heap, calls[g].err, calls[g].option), g)} :
       /\ heap' = r.heap
       /\ calls' = [calls EXCEPT ![g].pc = "done", ![g].err = r.err,
                                 ![g].option = r.option, ![g].unused = r.unused,
                                 ![g].val = r.val, ![g].ref = r.ref]
  /\ UNCHANGED <<arch, cu, snap, last, csrc, cdst, cset, cout, store, dao, svc>>

\* The caller drops what the call returned; the goroutine may call again.
Release(g) ==
  /\ calls[g].pc = "done"
  /\ calls' = [calls EXCEPT ![g] = IdleCall]
  /\ heap' = Discard(heap, g)
  /\ UNCHANGED <<arch, cu, snap, last, csrc, cdst, cset, cout, store, dao, svc>>

NextConc ==
  \/ \E g \in Goroutines, arg \in ConcArgs : Begin(g, arg)
  \/ \E g \in Goroutines : Step(g)
  \/ \E g \in Goroutines : End(g)
  \/ \E g \in Goroutines : Release(g)

SpecConc == InitConc /\ [][NextConc]_vars

\* C10: calls on one engine are independent under any interleaving: each
\* call returns what it returns when run alone on the original.
C10_Independent ==
  \A g \in Goroutines :
    calls[g].pc = "done" =>
      LET r == Update(OriginalCells, cu, g, calls[g].section, calls[g].name,
                      calls[g].set, arch)
      IN  /\ calls[g].val = r.val
          /\ calls[g].err = r.err
          /\ calls[g].unused = r.unused
          /\ calls[g].option = r.option

\* One call has returned the section while another call, in the middle of
\* its walk, has already assigned an option of the same section.
C10_Witness ==
  /\ calls[1].pc = "walk" /\ calls[1].w.used # {}
  /\ calls[2].pc = "done" /\ calls[2].err.kind = "none"
  /\ calls[1].section = <<"section-c">> /\ calls[2].section = <<"section-c">>

\* How far below the configuration the struct in cell a of goroutine g's
\* copy lies: 0 for the configuration itself, 1 for a section, 2 below.
Level(a, g) ==
  LET root == CopyAddr(cu.original.a, g)
  IN  IF a = root THEN 0
      ELSE IF \E i \in 1..Len(heap[root]) : heap[root][i].a = a THEN 1
      ELSE 2

\* The keys of a set that are the name of a field nested below the options
\* of the section and of no option.
NestedOnly(section, set, fn) ==
  {k \in DOMAIN set :
     /\ k \notin OptionNames(section, fn)
     /\ \E j \in TargetFields(section) : \E i \in 1..Len(Options(j)) :
          /\ Options(j)[i].k = "Struct"
          /\ \E d \in 1..Len(TypeFields[Options(j)[i].t]) :
               FieldName(fn, TypeFields[Options(j)[i].t][d]) = k}

\* The depth clauses shared by C17 as stated and as amended: the walker's
\* depth is the level of the field it is about to examine (0 at every
\* top-level field), a nested field of the copy keeps the original's value,
\* a key naming only a nested field is never marked used, and a call with
\* such a key fails and returns no value.
DepthOneOnly ==
  \A g \in Goroutines :
    LET c == calls[g]
    IN  /\ c.pc = "walk" /\ c.pos <= Len(c.evs) /\ c.err.kind = "none" =>
             c.w.depth = Level(c.evs[c.pos].a, g)
        /\ c.pc = "walk" =>
             \A a \in 1..ObjCells :
               Level(CopyAddr(a, g), g) = 2 => heap[CopyAddr(a, g)] = OriginalCells[a]
        /\ c.pc \in {"walk", "done"} =>
             c.w.used \cap NestedOnly(c.section, c.set, cu.FieldNameFunc) = {}
        /\ c.pc = "done" /\ NestedOnly(c.section, c.set, cu.FieldNameFunc) # {} =>
             c.err.kind # "none" /\ c.val = NoValue

\* C17 as stated: besides the depth clauses, a call with a key naming only
\* a nested field fails as an unknown option.
C17_AsStated ==
  /\ DepthOneOnly
  /\ \A g \in Goroutines :
       calls[g].pc = "done"
       /\ NestedOnly(calls[g].section, calls[g].set, cu.FieldNameFunc) # {} =>
         calls[g].err.kind = "unknown options"

\* C17 (amended): only depth 1 is addressable.  The walker's depth is 0 at
\* every top-level field, 1 at every option and 2 below; a nested field is
\* never assigned and a key naming only a nested field is never marked
\* used; a call with such a key fails and returns no value, with the
\* Unknown-Options error listing the key unless the coercion of another key
\* of the set failed first (that error ends the walk and is returned).
C17_DepthOneOnly ==
  /\ DepthOneOnly
  /\ \A g \in Goroutines :
       LET c == calls[g]
           nested == NestedOnly(c.section, c.set, cu.FieldNameFunc)
       IN  c.pc = "done" /\ nested # {} =>
             \/ c.err.kind = "unknown options" /\ nested \subseteq c.unused
             \/ c.err.kind \in {"wrong type", "not settable", "panic"}
                /\ c.option \in DOMAIN c.set \ nested

\* A call with only the nested key Deep walked past the nested field at
\* depth 2 and failed with Deep as an unknown option.
C17_Witness ==
  \E g \in Goroutines :
    /\ calls[g].pc = "done"
    /\ DOMAIN calls[g].set = {<<"Deep">>}
    /\ calls[g].err.kind = "unknown options"
    /\ calls[g].unused = {<<"Deep">>}
    /\ calls[g].w.depth = 0

\* The walker stood at the nested field with depth 2.
C17_WitnessNested ==
  \E g \in Goroutines :
    /\ calls[g].pc = "walk"
    /\ calls[g].pos <= Len(calls[g].evs)
    /\ calls[g].evs[calls[g].pos].f.Name = <<"Deep">>
    /\ calls[g].w.depth = 2
    /\ <<"Deep">> \in DOMAIN calls[g].set

(***************************************************************************)
(* Properties of the coercer                                               *)
(***************************************************************************)

SignedKinds == {"Int", "Int8", "Int16", "Int32", "Int64"}

UnsignedKinds == {"Uint", "Uint8", "Uint16", "Uint32", "Uint64"}

FloatKinds == {"Float32", "Float64"}

\* Whether the string parses as a number of the destination's class.
Parsable(s, dstK) ==
  CASE dstK \in SignedKinds   -> ParseInt(s).ok
    [] dstK \in UnsignedKinds -> ParseUint(s).ok
    [] dstK \in FloatKinds    -> ParseFloat(s).ok
    [] OTHER -> FALSE

\* The assignment matrix: the same kind, or a numeric destination and an
\* integer, unsigned, float or parsable string source.
Admissible(src, dst) ==
  \/ src.k = dst.k
  \/ /\ dst.k \in SignedKinds \cup UnsignedKinds \cup FloatKinds
     /\ \/ src.k \in SignedKinds \cup UnsignedKinds \cup FloatKinds
        \/ src.k = "String" /\ Parsable(src.s, dst.k)

\* C5: on a settable destination the coercer assigns exactly when the pair
\* is admissible in the assignment matrix, and otherwise leaves the
\* destination unchanged and returns a type mismatch naming the source and
\* destination kinds.
C5_AssignmentMatrix ==
  cout.done /\ cset =>
    IF Admissible(csrc, cdst)
    THEN cout.err.kind = "none"
    ELSE cout.dst = cdst /\ cout.err = ErrWrongType(csrc.k, cdst.k)

\* Whether the integer with signed 64-bit reading n, held in kind srcK, is a
\* value of kind k.
Representable(n, srcK, k) ==
  LET neg == n < 0 /\ srcK \in SignedKinds
      big == n < 0 /\ srcK \in UnsignedKinds
  IN  CASE k \in {"Int8", "Int16"} ->
             /\ ~big
             /\ n >= 0 - Pow2(KindBits[k]) \div 2
             /\ n < Pow2(KindBits[k]) \div 2
        [] k \in {"Int32", "Int", "Int64"} -> ~big
        [] k \in {"Uint8", "Uint16"} -> ~neg /\ ~big /\ n < Pow2(KindBits[k])
        [] k \in {"Uint32"} -> ~neg /\ ~big
        [] k \in {"Uint", "Uint64"} -> ~neg

\* The case of the round trip: a settable destination of integer kind and a
\* source of integer kind whose value is a value of both kinds.
RoundTripCase ==
  /\ cset
  /\ csrc.k \in SignedKinds \cup UnsignedKinds
  /\ cdst.k \in SignedKinds \cup UnsignedKinds
  /\ Representable(csrc.n, csrc.k, csrc.k)
  /\ Representable(csrc.n, csrc.k, cdst.k)

\* C12: for a source of integer kind, a settable destination of integer
\* kind and a source value that both kinds represent, the coercion succeeds
\* and leaves the source's value in the destination, and coercing the result
\* back into a field of the source's type succeeds and yields the source.
C12_RoundTrip ==
  RoundTripCase =>
    /\ cout.done =>
         /\ cout.err.kind = "none"
         /\ cout.dst.k = cdst.k /\ cout.dst.t = cdst.t
         /\ cout.dst.n = csrc.n
    /\ cout.back.done =>
         /\ cout.back.err.kind = "none"
         /\ cout.back.dst = csrc

\* C12 on plainly typed values (no defined type sharing a kind).
C12_RoundTripPlain == csrc.t = csrc.k /\ cdst.t = cdst.k => C12_RoundTrip

\* C6: the coercer never panics: it returns a successful assignment or a
\* structured error for every source value and destination field.
C6_NeverPanics == cout.done => cout.err.kind \in {"none", "not settable", "wrong type"}

(***************************************************************************)
(* The OverrideDAO alone: Set, Delete, Get and List in any order, on a     *)
(* store that may fail to serve a call.                                    *)
(***************************************************************************)

\* A JSON object decoded into an interface{}: a map[string]interface{}.
ObjectV == Val("Map", "map[string]interface {}", 0, NoStr)

Ids == { <<"section-a">>, <<"section-c">> }

OneKey(k, v) == GoMap([x \in {k} |-> v])

DaoMaps ==
  { EmptyMap,
    OneKey(<<"toml-option1">>, StrV(<<"new">>)),
    OneKey(<<"toml-option4">>, FloatV("Float64", IntToFloat(42))),
    OneKey(<<"typo">>, ObjectV) }

InitDAO ==
  /\ store = EmptyStore
  /\ dao = NoDao
  /\ svc = NoService
  /\ arch = "amd64"
  /\ heap = OriginalCells
  /\ cu = New(RefV("Ptr", "TestConfig", 1))
  /\ snap = DeepValue(heap, cu.original)
  /\ last = NoCall
  /\ calls = IdleCalls
  /\ csrc = NilValue /\ cdst = NilValue /\ cset = FALSE /\ cout = NoCoercion

\* d.Set(o)
DaoSet(o, up) ==
  /\ \E r \in {overrideKV_Set(store, o, up)} :
       /\ store' = r.store
       /\ dao' = [op |-> "Set", id |-> o.ID, err |-> r.err, val |-> o, list |-> {},
                  ref |-> IF r.err # "none" THEN dao.ref
                          ELSE [id \in DOMAIN dao.ref \cup {o.ID} |->
                                  IF id = o.ID
                                  THEN [o |-> o, replaced |-> o.ID \in DOMAIN dao.ref]
                                  ELSE dao.ref[id]]]
  /\ UNCHANGED <<arch, heap, cu, snap, last, calls, csrc, cdst, cset, cout, svc>>

\* d.Delete(id)
DaoDelete(id, up) ==
  /\ \E r \in {overrideKV_Delete(store, id, up)} :
       /\ store' = r.store
       /\ dao' = [op |-> "Delete", id |-> id, err |-> r.err, val |-> ZeroOverride,
                  list |-> {},
                  ref |-> IF r.err # "none" THEN dao.ref
                          ELSE [x \in DOMAIN dao.ref \ {id} |-> dao.ref[x]]]
  /\ UNCHANGED <<arch, heap, cu, snap, last, calls, csrc, cdst, cset, cout, svc>>

\* d.Get(id)
DaoGet(id, up) ==
  /\ \E r \in {overrideKV_Get(store, id, up)} :
       dao' = [dao EXCEPT !.op = "Get", !.id = id, !.err = r.err, !.val = r.val,
                          !.list = {}]
  /\ UNCHANGED <<arch, heap, cu, snap, last, calls, csrc, cdst, cset, cout, store, svc>>

\* d.List()
DaoList(up) ==
  /\ \E r \in {overrideKV_List(store, up)} :
       dao' = [dao EXCEPT !.op = "List", !.id = << >>, !.err = r.err,
                          !.val = ZeroOverride, !.list = r.val]
  /\ UNCHANGED <<arch, heap, cu, snap, last, calls, csrc, cdst, cset, cout, store, svc>>

NextDAO ==
  \/ \E id \in Ids, m \in DaoMaps, up \in BOOLEAN : DaoSet(NewOverride(id, m), up)
  \/ \E id \in Ids, up \in BOOLEAN : DaoDelete(id, up)
  \/ \E id \in Ids, up \in BOOLEAN : DaoGet(id, up)
  \/ \E up \in BOOLEAN : DaoList(up)

SpecDAO == InitDAO /\ [][NextDAO]_vars

\* C13: a List that returns no error returns exactly the overrides that
\* were stored with Set and not removed with Delete since.
C13_ListReturnsStored ==
  dao.op = "List" /\ dao.err = "none" =>
    dao.list = {dao.ref[id].o : id \in DOMAIN dao.ref}

MaxRequests == 2

\* Capacity of the updates channel.
UpdatesCap == 1

\* The index of the last "/" of p at or before i, 0 when there is none.
RECURSIVE LastSlash(_, _)
LastSlash(p, i) == IF i = 0 \/ p[i] = "/" THEN i ELSE LastSlash(p, i - 1)

\* path.Split(p): the path up to and including its last slash, and the rest.
pathSplit(p) ==
  LET i == LastSlash(p, Len(p))
  IN  [dir |-> SubSeq(p, 1, i), file |-> SubSeq(p, i + 1, Len(p))]

\* JSON values of a request body.
JStr(str) == [j |-> "string", n |-> 0, s |-> str]

JNum(n) == [j |-> "number", n |-> n, s |-> NoStr]

JObj == [j |-> "object", n |-> 0, s |-> NoStr]

\* encoding/json into an interface{}: a string becomes a string, a number a
\* float64, an object a map[string]interface{}.
jsonValue(v) ==
  CASE v.j = "string" -> StrV(v.s)
    [] v.j = "number" -> FloatV("Float64", IntToFloat(v.n))
    [] v.j = "object" -> ObjectV

ZeroUpdateAction == [Set |-> NoEntries, Delete |-> << >>]

\* json.NewDecoder(r.Body).Decode(&ua)
jsonDecode(body) ==
  IF body.json = "bad" THEN [err |-> "failed to decode JSON", ua |-> ZeroUpdateAction]
  ELSE [err |-> "none",
        ua |-> [Set |-> [k \in DOMAIN body.set |-> jsonValue(body.set[k])],
                Delete |-> body.delete]]

\* for k, v := range ua.Set { o.Overrides[k] = v }
ApplySets(m, set) ==
  [k \in DOMAIN m \cup DOMAIN set |-> IF k \in DOMAIN set THEN set[k] ELSE m[k]]

\* for _, k := range ua.Delete { delete(o.Overrides, k) }
RECURSIVE ApplyDeletes(_, _)
ApplyDeletes(m, del) ==
  IF del = << >> THEN m
  ELSE ApplyDeletes([k \in DOMAIN m \ {Head(del)} |-> m[k]], Tail(del))

ErrRetrieve == "failed to retrieve existing overrides"

\* The outcome of applyUpdateAction: the error, the merged map, the store.
Applied(err, set, st) == [err |-> err, set |-> set, store |-> st]

\* An applyUpdateAction that returns the merged map without storing it
\* (mutant).
applyUpdateActionMutNoSet(st, id, ua, up) ==
  LET g == overrideKV_Get(st, id, up)
      o == IF g.err = ErrNoOverrideExists THEN NewOverride(id, EmptyMap) ELSE g.val
  IN  IF g.err \notin {"none", ErrNoOverrideExists} THEN Applied(ErrRetrieve, NilMap, st)
      ELSE IF o.Overrides.nil /\ DOMAIN ua.Set # {} THEN Applied("panic", NilMap, st)
      ELSE Applied("none",
                   [o.Overrides EXCEPT !.m = ApplyDeletes(ApplySets(o.Overrides.m, ua.Set),
                                                         ua.Delete)],
                   st)

\* An applyUpdateAction that removes the delete keys before it writes the
\* set entries (mutant).
applyUpdateActionMutDeleteFirst(st, id, ua, up) ==
  LET g == overrideKV_Get(st, id, up)
      o == IF g.err = ErrNoOverrideExists THEN NewOverride(id, EmptyMap) ELSE g.val
  IN  IF g.err \notin {"none", ErrNoOverrideExists} THEN Applied(ErrRetrieve, NilMap, st)
      ELSE IF o.Overrides.nil /\ DOMAIN ua.Set # {} THEN Applied("panic", NilMap, st)
      ELSE LET merged == [o.Overrides EXCEPT
                            !.m = ApplySets(ApplyDeletes(o.Overrides.m, ua.Delete), ua.Set)]
               r      == overrideKV_Set(st, [o EXCEPT !.Overrides = merged], up)
           IN  IF r.err # "none" THEN Applied(ErrRetrieve, NilMap, st)
               ELSE Applied("none", merged, r.store)

\* Service.applyUpdateAction(id, ua): the stored override of id (a new one
\* when none exists) with the set entries written and then the delete keys
\* removed, stored again, and its map returned.  Writing into a nil map
\* panics.
applyUpdateAction(st, id, ua, up) ==
  LET g == overrideKV_Get(st, id, up)
      o == IF g.err = ErrNoOverrideExists THEN NewOverride(id, EmptyMap) ELSE g.val
  IN  IF g.err \notin {"none", ErrNoOverrideExists} THEN Applied(ErrRetrieve, NilMap, st)
      ELSE IF o.Overrides.nil /\ DOMAIN ua.Set # {} THEN Applied("panic", NilMap, st)
      ELSE LET merged == [o.Overrides EXCEPT
                            !.m = ApplyDeletes(ApplySets(o.Overrides.m, ua.Set), ua.Delete)]
               r      == overrideKV_Set(st, [o EXCEPT !.Overrides = merged], up)
           IN  IF r.err # "none" THEN Applied(ErrRetrieve, NilMap, st)
               ELSE Applied("none", merged, r.store)

\* How handleUpdateRequest stands when it returns, panics or reaches its
\* send: what it derived and did, the status code written (0: none yet),
\* and the store and memory it leaves.
Handled(section, name, decoded, persisted, handed, upd, code, panicked, st) ==
  [section |-> section, name |-> name, decoded |-> decoded, persisted |-> persisted,
   handed |-> handed, err |-> upd.err, option |-> upd.option, unused |-> upd.unused,
   val |-> upd.val, code |-> code, panicked |-> panicked, store |-> st,
   heap |-> Discard(upd.heap, 1)]

\* Service.handleUpdateRequest(w, r) up to its send, for a request with the
\* given path and body.  opened: whether s.overrides is set (a call on the
\* nil OverrideDAO panics); up: whether the store serves the calls.
handleUpdateRequest(opened, st, h, c, path, body, up, ar) ==
  LET sp      == pathSplit(path)
      section == IF sp.dir = <<"/">> THEN sp.file ELSE sp.dir
      name    == IF sp.dir = <<"/">> THEN << >> ELSE sp.file
      d       == jsonDecode(body)
      a       == applyUpdateAction(st, section, d.ua, up)
      r       == Update(h, c, 1, section, name, a.set.m, ar)
      none    == Outcome(h, NoError, << >>, {}, NoValue, 0)
  IN  IF d.err # "none"
      THEN Handled(section, name, FALSE, FALSE, NilMap, none, 400, FALSE, st)
      ELSE IF ~opened \/ a.err = "panic"
      THEN Handled(section, name, TRUE, FALSE, NilMap, none, 0, TRUE, st)
      ELSE IF a.err # "none"
      THEN Handled(section, name, TRUE, FALSE, NilMap, none, 400, FALSE, st)
      ELSE IF r.err.kind = "panic"
      THEN Handled(section, name, TRUE, TRUE, a.set, r, 0, TRUE, a.store)
      ELSE IF r.err.kind # "none"
      THEN Handled(section, name, TRUE, TRUE, a.set, r, 400, FALSE, a.store)
      ELSE Handled(section, name, TRUE, TRUE, a.set, r, 0, FALSE, a.store)

\* The keys a rejection by Override names: the unknown options, or the
\* option whose coercion failed.
Offending(r) ==
  CASE r.err.kind = "unknown options" -> r.unused
    [] r.err.kind \in {"wrong type", "not settable", "panic"} -> {r.option}
    [] OTHER -> {}

Paths ==
  { <<"/", "section-a">>, <<"/", "section-c">>, <<"/", "section-a", "/", "instance">> }

\* The "set" objects of the requests: empty, or one key and its value.
BodySets ==
  {NoEntries} \cup
  {[x \in {e[1]} |-> e[2]] : e \in
     { <<<<"toml-option1">>, JStr(<<"new">>)>>, <<<<"toml-option1">>, JNum(42)>>,
       <<<<"toml-option4">>, JStr(<<"new">>)>>, <<<<"toml-option4">>, JNum(42)>>,
       <<<<"typo">>, JStr(<<"new">>)>>, <<<<"typo">>, JObj>> }}

\* The "delete" arrays of the requests.
BodyDeletes == { << >>, << <<"toml-option1">> >>, << <<"typo">> >> }

BadBody == [json |-> "bad", set |-> NoEntries, delete |-> << >>]

\* {"set": {...}, "delete": [...]}
ObjectBody(set, del) == [json |-> "object", set |-> set, delete |-> del]

Bodies == {BadBody} \cup {ObjectBody(set, del) : set \in BodySets, del \in BodyDeletes}

\* NewService(config, l, updates) on the tests' configuration: the engine
\* names options by their toml tag.
InitService ==
  /\ arch = "amd64"
  /\ heap = OriginalCells
  /\ cu = [New(RefV("Ptr", "TestConfig", 1)) EXCEPT !.FieldNameFunc = "toml"]
  /\ snap = DeepValue(heap, cu.original)
  /\ store = EmptyStore
  /\ svc = NoService
  /\ dao = NoDao
  /\ last = NoCall
  /\ calls = IdleCalls
  /\ csrc = NilValue /\ cdst = NilValue /\ cset = FALSE /\ cout = NoCoercion

\* Service.Open(): s.overrides = newOverrideKV(store)
Open ==
  /\ ~svc.opened
  /\ svc' = [svc EXCEPT !.opened = TRUE]
  /\ UNCHANGED <<arch, heap, cu, snap, last, calls, csrc, cdst, cset, cout, store, dao>>

\* Service.Close(): close(s.updates), once, on a service that was opened.
Close ==
  /\ svc.opened
  /\ ~svc.closed
  /\ svc' = [svc EXCEPT !.closed = TRUE]
  /\ UNCHANGED <<arch, heap, cu, snap, last, calls, csrc, cdst, cset, cout, store, dao>>

\* handleUpdateRequest from its start to its return with an error, its
\* panic, or its send.
HandleUpdateRequest(path, body, up) ==
  /\ svc.pc = "idle"
  /\ svc.n < MaxRequests
  /\ \E r \in {handleUpdateRequest(svc.opened, store, heap, cu, path, body, up, arch)} :
       /\ store' = r.store
       /\ heap' = r.heap
       /\ svc' =
            [svc EXCEPT
               !.n = svc.n + 1,
               !.pc = IF r.code = 0 /\ ~r.panicked THEN "send" ELSE "idle",
               !.req = [NoRequest EXCEPT
                          !.started = TRUE, !.path = path, !.body = body,
                          !.section = r.section, !.name = r.name,
                          !.decoded = r.decoded, !.persisted = r.persisted,
                          !.handed = r.handed, !.err = r.err, !.option = r.option,
                          !.unused = r.unused, !.val = r.val, !.code = r.code,
                          !.panicked = r.panicked,
                          !.before = IF r.section \in DOMAIN svc.hist
                                     THEN svc.hist[r.section] ELSE NoEntries,
                          !.prevRej = IF r.section \in DOMAIN svc.rej
                                      THEN svc.rej[r.section] ELSE NoRejection,
                          !.wasOpen = svc.opened],
               !.hist = IF r.persisted
                        THEN [x \in DOMAIN svc.hist \cup {r.section} |->
                                IF x = r.section THEN r.handed.m ELSE svc.hist[x]]
                        ELSE svc.hist,
               !.rej = IF ~r.persisted THEN svc.rej
                       ELSE IF r.err.kind # "none"
                       THEN [x \in DOMAIN svc.rej \cup {r.section} |->
                               IF x = r.section
                               THEN [kind |-> r.err.kind, keys |-> Offending(r)]
                               ELSE svc.rej[x]]
                       ELSE [x \in DOMAIN svc.rej \ {r.section} |-> svc.rej[x]]]
  /\ UNCHANGED <<arch, cu, snap, last, calls, csrc, cdst, cset, cout, dao>>

\* s.updates <- cu: the send waits for room in the channel and panics on a
\* closed channel.
Send ==
  /\ svc.pc = "send"
  /\ IF svc.closed
     THEN svc' = [svc EXCEPT !.pc = "idle", !.req.panicked = TRUE]
     ELSE /\ Len(svc.updates) < UpdatesCap
          /\ \E update \in {[Name |-> svc.req.section, NewConfig |-> svc.req.val]} :
               svc' = [svc EXCEPT !.pc = "sent",
                                  !.updates = Append(svc.updates, update),
                                  !.req.sent = Append(svc.req.sent, update)]
  /\ UNCHANGED <<arch, heap, cu, snap, last, calls, csrc, cdst, cset, cout, store, dao>>

\* w.WriteHeader(http.StatusNoContent)
Respond ==
  /\ svc.pc = "sent"
  /\ svc' = [svc EXCEPT !.pc = "idle", !.req.code = 204]
  /\ UNCHANGED <<arch, heap, cu, snap, last, calls, csrc, cdst, cset, cout, store, dao>>

\* The consumer of the updates channel receives one ConfigUpdate.
Receive ==
  /\ svc.updates # << >>
  /\ svc' = [svc EXCEPT !.updates = Tail(svc.updates)]
  /\ UNCHANGED <<arch, heap, cu, snap, last, calls, csrc, cdst, cset, cout, store, dao>>

NextService ==
  \/ Open
  \/ Close
  \/ \E path \in Paths, body \in Bodies, up \in BOOLEAN : HandleUpdateRequest(path, body, up)
  \/ Send
  \/ Respond
  \/ Receive

SpecService == InitService /\ [][NextService]_vars

(***************************************************************************)
(* Properties of the Service                                               *)
(***************************************************************************)

\* The last request's handler has returned or panicked.
RequestOver == svc.req.started /\ svc.pc = "idle"

\* The request decoded, persisted and passed Override.
RequestPassed == svc.req.decoded /\ svc.req.persisted /\ svc.req.err.kind = "none"

\* C15: a request sends at most one ConfigUpdate, and only when it decoded,
\* persisted and passed Override; the update carries the section as Name and
\* the value Override returned as NewConfig, and 204 is written only after
\* it was sent.  A request that decoded, persisted and passed Override ends
\* with the update sent and 204; every other request ends with no update
\* sent and 400.
C15_UpdateIffSuccess ==
  /\ Len(svc.req.sent) <= 1
  /\ svc.req.sent # << >> =>
       /\ RequestPassed
       /\ svc.req.val # NoValue
       /\ svc.req.sent[1] = [Name |-> svc.req.section, NewConfig |-> svc.req.val]
  /\ svc.req.code = 204 => Len(svc.req.sent) = 1
  /\ RequestOver /\ RequestPassed => svc.req.code = 204 /\ Len(svc.req.sent) = 1
  /\ RequestOver /\ ~RequestPassed => svc.req.code = 400 /\ svc.req.sent = << >>

\* C15 for the requests handled between Open and Close.
C15_WhileOpen == svc.req.wasOpen /\ ~svc.closed => C15_UpdateIffSuccess

\* A request to an open service passed and ended with 204, its update sent.
C15_WitnessPassed ==
  /\ RequestOver /\ RequestPassed /\ svc.req.wasOpen
  /\ svc.req.code = 204
  /\ svc.req.section = <<"section-a">>
  /\ svc.req.val.sub[1].s = <<"new">>

\* The elements of a sequence.
Range(seq) == {seq[i] : i \in 1..Len(seq)}

\* The map before with the entries of set written and then the keys of del
\* removed.
Merged(before, set, del) ==
  [k \in (DOMAIN before \cup DOMAIN set) \ Range(del) |->
     IF k \in DOMAIN set THEN set[k] ELSE before[k]]

\* The "set" object of the last request, decoded.
RequestSet == [k \in DOMAIN svc.req.body.set |-> jsonValue(svc.req.body.set[k])]

\* What the DAO holds for id.
Stored(id) == overrideKV_Get(store, id, TRUE)

\* C16: the map a request hands to Override is the map the previous request
\* for the section persisted (the empty map when there was none) with the
\* request's set entries written and then its delete keys removed, and the
\* map the store holds for a section is the map the last request for it
\* handed to Override.
C16_MergedMapHanded ==
  /\ svc.req.persisted =>
       /\ ~svc.req.handed.nil
       /\ svc.req.handed.m = Merged(svc.req.before, RequestSet, svc.req.body.delete)
  /\ \A id \in DOMAIN svc.hist :
       /\ Stored(id).err = "none"
       /\ Stored(id).val.ID = id
       /\ Stored(id).val.Overrides = GoMap(svc.hist[id])

\* A request whose set and delete share a key handed Override the entries
\* an earlier request had persisted, without that key.
C16_Witness ==
  /\ svc.req.persisted
  /\ svc.req.before # NoEntries
  /\ DOMAIN svc.req.body.set \cap Range(svc.req.body.delete) # {}
  /\ svc.req.handed.m = svc.req.before

\* Override rejected the merged map of the last request.
RequestRejected == svc.req.persisted /\ svc.req.err.kind # "none"

\* After a rejected request the store still holds the entries the request
\* set and did not itself delete.
RejectedIsStored ==
  RequestRejected =>
    \A k \in DOMAIN RequestSet \ Range(svc.req.body.delete) :
      /\ Stored(svc.req.section).err = "none"
      /\ k \in DOMAIN Stored(svc.req.section).val.Overrides.m
      /\ Stored(svc.req.section).val.Overrides.m[k] = RequestSet[k]

CoercionErrors == {"wrong type", "not settable", "panic"}

====
